---------------------------- MODULE Spec2Model ----------------------------
(***************************************************************************)
(* Model of compile.py: the pipeline that loads data/teams.csv, validates  *)
(* it with five rules, fills in missing SSH passwords, writes the table    *)
(* back if it changed, and generates Dockerfiles, docker-run scripts,      *)
(* node-init scripts, the inventory [containers] section and the team      *)
(* credential messages.                                                    *)
(*                                                                         *)
(* Strings are TLA+ strings; str.strip, str.upper, str.lower, str.split,   *)
(* str.startswith, int() and the :02d format are computed character by     *)
(* character as Python computes them.  A table is the list of dictionaries *)
(* csv.DictReader returns: each row is a function from column name to      *)
(* string.  Rows are well-formed (every row has exactly the header's       *)
(* columns); the CSV quoting layer is not modelled.                        *)
(***************************************************************************)
EXTENDS Integers, Sequences, FiniteSets, TLC

VARIABLES
    pc,                 \* position in the __main__ block
    csv_file,           \* data/teams.csv on disk: [fieldnames, rows]
    rows,               \* the in-memory table (list of dicts)
    fieldnames,         \* list(rows[0].keys())
    log,                \* one report per validation rule that was run
    passwords_generated,\* fill_ssh_passwords: (team_id, team_name, password)
    passwords_updated,  \* the flag fill_ssh_passwords returns
    writes,             \* <<path, content>> of each write of the run, in order
    dockerfiles,        \* data/dockerfiles/: path -> content
    scripts,            \* data/scripts/: path -> content
    inventory,          \* playbooks/inventory: its lines
    messages,           \* data/messages/: path -> content
    counts,             \* the counts the generators returned
    previous            \* the files the previous run of the program left

vars == <<pc, csv_file, rows, fieldnames, log, passwords_generated,
          passwords_updated, writes, dockerfiles, scripts, inventory,
          messages, counts, previous>>

-----------------------------------------------------------------------------
(* Python string primitives *)

Lowercase == "abcdefghijklmnopqrstuvwxyz"
Uppercase == "ABCDEFGHIJKLMNOPQRSTUVWXYZ"
Digits == "0123456789"

Char(s, i) == SubSeq(s, i, i)

\* position of the one-character string c in s, 0 when absent
RECURSIVE IndexFrom(_, _, _)
IndexFrom(s, c, i) ==
    IF i > Len(s) THEN 0
    ELSE IF Char(s, i) = c THEN i
    ELSE IndexFrom(s, c, i + 1)

IndexOf(s, c) == IndexFrom(s, c, 1)

IsSpace(c) == c \in {" ", "\t", "\n", "\r"}

RECURSIVE lstrip(_)
lstrip(s) ==
    IF Len(s) > 0 /\ IsSpace(Char(s, 1)) THEN lstrip(SubSeq(s, 2, Len(s))) ELSE s

RECURSIVE rstrip(_)
rstrip(s) ==
    IF Len(s) > 0 /\ IsSpace(Char(s, Len(s)))
    THEN rstrip(SubSeq(s, 1, Len(s) - 1)) ELSE s

\* str.strip()
strip(s) == rstrip(lstrip(s))

UpperChar(c) ==
    LET i == IndexOf(Lowercase, c) IN IF i = 0 THEN c ELSE Char(Uppercase, i)

LowerChar(c) ==
    LET i == IndexOf(Uppercase, c) IN IF i = 0 THEN c ELSE Char(Lowercase, i)

\* str.upper()
RECURSIVE upper(_)
upper(s) ==
    IF Len(s) = 0 THEN "" ELSE UpperChar(Char(s, 1)) \o upper(SubSeq(s, 2, Len(s)))

\* str.lower()
RECURSIVE lower(_)
lower(s) ==
    IF Len(s) = 0 THEN "" ELSE LowerChar(Char(s, 1)) \o lower(SubSeq(s, 2, Len(s)))

\* str.startswith(prefix)
startswith(s, prefix) ==
    Len(s) >= Len(prefix) /\ SubSeq(s, 1, Len(prefix)) = prefix

\* str.split(sep) for a one-character separator: "".split(",") = [""]
RECURSIVE split(_, _)
split(s, sep) ==
    LET i == IndexOf(s, sep) IN
    IF i = 0 THEN <<s>>
    ELSE <<SubSeq(s, 1, i - 1)>> \o split(SubSeq(s, i + 1, Len(s)), sep)

\* ", ".join(parts)
RECURSIVE join(_, _)
join(sep, parts) ==
    IF Len(parts) = 0 THEN ""
    ELSE IF Len(parts) = 1 THEN parts[1]
    ELSE parts[1] \o sep \o join(sep, Tail(parts))

IsDigit(c) == IndexOf(Digits, c) # 0

\* the digits part of an int() literal: digits, single underscores between them
RECURSIVE IsDigitRun(_, _)
IsDigitRun(s, prevDigit) ==
    IF Len(s) = 0 THEN prevDigit
    ELSE IF IsDigit(Char(s, 1)) THEN IsDigitRun(SubSeq(s, 2, Len(s)), TRUE)
    ELSE IF Char(s, 1) = "_" /\ prevDigit THEN IsDigitRun(SubSeq(s, 2, Len(s)), FALSE)
    ELSE FALSE

HasSign(s) == Len(s) > 0 /\ Char(s, 1) \in {"+", "-"}

Unsigned(s) == IF HasSign(s) THEN SubSeq(s, 2, Len(s)) ELSE s

\* int(s) returns (TRUE) or raises ValueError (FALSE)
int_ok(s) == IsDigitRun(Unsigned(strip(s)), FALSE)

RECURSIVE DigitsValue(_, _)
DigitsValue(s, acc) ==
    IF Len(s) = 0 THEN acc
    ELSE IF Char(s, 1) = "_" THEN DigitsValue(SubSeq(s, 2, Len(s)), acc)
    ELSE DigitsValue(SubSeq(s, 2, Len(s)), 10 * acc + (IndexOf(Digits, Char(s, 1)) - 1))

\* int(s), where int_ok(s)
int(s) ==
    LET t == strip(s)
        v == DigitsValue(Unsigned(t), 0)
    IN  IF HasSign(t) /\ Char(t, 1) = "-" THEN 0 - v ELSE v

\* str(n) for n >= 0
RECURSIVE NatStr(_)
NatStr(n) ==
    IF n < 10 THEN Char(Digits, n + 1)
    ELSE NatStr(n \div 10) \o Char(Digits, (n % 10) + 1)

\* str(n)
str(n) == IF n < 0 THEN "-" \o NatStr(0 - n) ELSE NatStr(n)

\* f"{n:02d}": sign first, then zero padding to a total width of two
fmt02d(n) ==
    IF n < 0 THEN "-" \o NatStr(0 - n)
    ELSE IF Len(NatStr(n)) < 2 THEN "0" \o NatStr(n)
    ELSE NatStr(n)


-----------------------------------------------------------------------------
(* Generic list helpers (Python list and dict idioms) *)

Range(f) == {f[x] : x \in DOMAIN f}

RECURSIVE Concat(_)
Concat(ss) == IF Len(ss) = 0 THEN <<>> ELSE Head(ss) \o Concat(Tail(ss))

\* the distinct elements of a list in order of first occurrence: the key order
\* of a dict (defaultdict) filled while iterating the list
RECURSIVE OrderedKeys(_)
OrderedKeys(s) ==
    IF Len(s) = 0 THEN <<>>
    ELSE LET init == OrderedKeys(SubSeq(s, 1, Len(s) - 1))
             last == s[Len(s)]
         IN  IF last \in Range(init) THEN init ELSE Append(init, last)

\* the elements of a set of positions in ascending order: the order in which
\* a loop over the list meets them
RECURSIVE Ascending(_)
Ascending(S) ==
    IF S = {} THEN <<>>
    ELSE LET m == CHOOSE x \in S : \A y \in S : x <= y
         IN  <<m>> \o Ascending(S \ {m})

\* dict.get(key, '')
Get(row, key) == IF key \in DOMAIN row THEN row[key] ELSE ""

-----------------------------------------------------------------------------
(* The table *)

required_columns ==
    <<"Team ID", "Team Name", "Cluster", "#GPUs", "Docker Image",
      "Container Name", "IP", "Port", "GPU IDs", "Services", "SSH Password">>

\* row['X'].strip()
F(row, col) == strip(row[col])

\* one violation line that a rule prints
Violation(kind, team_id, team_name, line, lines, set, list) ==
    [kind |-> kind, team_id |-> team_id, team_name |-> team_name,
     line |-> line, lines |-> lines, set |-> set, list |-> list]

\* what a rule function printed and returned; a rule that raised returned nothing
Report(rule, status, violations) ==
    [rule |-> rule, status |-> status, violations |-> violations]

Verdict(violations) == IF Len(violations) > 0 THEN "fail" ELSE "pass"

-----------------------------------------------------------------------------
(* Validator *)

check_required_columns(rs) ==
    IF Len(rs) = 0
    THEN Report("check_required_columns", "fail",
                <<Violation("empty", "", "", 0, <<>>, {}, <<>>)>>)
    ELSE LET actual_columns == DOMAIN rs[1]
             missing_columns == Range(required_columns) \ actual_columns
         IN  IF missing_columns # {}
             THEN Report("check_required_columns", "fail",
                         <<Violation("missing_columns", "", "", 0, <<>>,
                                     missing_columns, <<>>)>>)
             ELSE Report("check_required_columns", "pass", <<>>)

\* the names each team id maps to, and the ids each team name maps to
team_id_to_names(rs, id) ==
    {F(rs[i], "Team Name") : i \in {j \in 1..Len(rs) : F(rs[j], "Team ID") = id}}

team_name_to_ids(rs, nm) ==
    {F(rs[i], "Team ID") : i \in {j \in 1..Len(rs) : F(rs[j], "Team Name") = nm}}

\* for team_id, names in team_id_to_names.items(): if len(names) > 1
MappingViolationsById(rs) ==
    LET ids == OrderedKeys([i \in 1..Len(rs) |-> F(rs[i], "Team ID")])
    IN  Concat([k \in 1..Len(ids) |->
            IF Cardinality(team_id_to_names(rs, ids[k])) > 1
            THEN <<Violation("id_maps_to_names", ids[k], "", 0, <<>>,
                             team_id_to_names(rs, ids[k]), <<>>)>>
            ELSE <<>>])

\* a reverse check that was left out
MappingViolationsByNameOmitted(rs) == <<>>

\* for team_name, ids in team_name_to_ids.items(): if len(ids) > 1
MappingViolationsByName(rs) ==
    LET names == OrderedKeys([i \in 1..Len(rs) |-> F(rs[i], "Team Name")])
    IN  Concat([k \in 1..Len(names) |->
            IF Cardinality(team_name_to_ids(rs, names[k])) > 1
            THEN <<Violation("name_maps_to_ids", "", names[k], 0, <<>>,
                             team_name_to_ids(rs, names[k]), <<>>)>>
            ELSE <<>>])

check_team_mapping(rs) ==
    LET violations == MappingViolationsById(rs) \o MappingViolationsByName(rs)
    IN  Report("check_team_mapping", Verdict(violations), violations)

\* enumerate(rows, start=1): line numbers that forget the header row
LineOfNoHeader(i) == i

\* enumerate(rows, start=2): the line of the i-th data row
LineOf(i) == i + 1

\* the violations check_team_consistency finds for one team
TeamViolations(rs, team_id) ==
    LET n == Len(rs)
        team_rows == Ascending({i \in 1..n : F(rs[i], "Team ID") = team_id})
        m == Len(team_rows)
        row(k) == rs[team_rows[k]]
        idx(k) == LineOf(team_rows[k])
        team_name == F(row(1), "Team Name")
        ips == {F(row(k), "IP") : k \in 1..m} \ {""}
        ssh_passwords == {F(row(k), "SSH Password") : k \in 1..m} \ {""}
        nonempty(col) == Ascending({k \in 1..m : F(row(k), col) # ""})
        keys(col) == LET ks == nonempty(col)
                     IN  OrderedKeys([j \in 1..Len(ks) |-> F(row(ks[j]), col)])
        line_numbers(col, v) ==
            LET ks == Ascending({k \in 1..m : F(row(k), col) = v})
            IN  [j \in 1..Len(ks) |-> idx(ks[j])]
        dup(kind, col) ==
            LET ks == keys(col)
            IN  Concat([j \in 1..Len(ks) |->
                    IF Len(line_numbers(col, ks[j])) > 1
                    THEN <<Violation(kind, team_id, team_name, 0,
                                     line_numbers(col, ks[j]), {}, <<ks[j]>>)>>
                    ELSE <<>>])
    IN  IF m = 1 THEN <<>>
        ELSE (IF Cardinality(ips) > 1
              THEN <<Violation("multiple_ips", team_id, team_name, 0, <<>>, ips, <<>>)>>
              ELSE <<>>)
          \o (IF Cardinality(ssh_passwords) > 1
              THEN <<Violation("multiple_ssh_passwords", team_id, team_name, 0,
                               <<>>, {}, <<>>)>>
              ELSE <<>>)
          \o dup("duplicate_port", "Port")
          \o dup("duplicate_container_name", "Container Name")

\* a rule that returns at the first violation it meets
check_team_consistency_first_only(rs) ==
    LET teams == OrderedKeys([i \in 1..Len(rs) |-> F(rs[i], "Team ID")])
        violations ==
            Concat([t \in 1..Len(teams) |-> TeamViolations(rs, teams[t])])
    IN  Report("check_team_consistency", Verdict(violations),
               IF Len(violations) = 0 THEN <<>> ELSE <<violations[1]>>)

check_team_consistency(rs) ==
    LET teams == OrderedKeys([i \in 1..Len(rs) |-> F(rs[i], "Team ID")])
        violations ==
            Concat([t \in 1..Len(teams) |-> TeamViolations(rs, teams[t])])
    IN  Report("check_team_consistency", Verdict(violations), violations)

\* row['Cluster'].strip().upper() in ['YES', 'Y']
is_cluster_yes(row) == upper(strip(row["Cluster"])) \in {"YES", "Y"}

non_cluster_fields ==
    <<"Container Name", "IP", "Port", "GPU IDs", "Services", "SSH Password">>

cluster_required_fields ==
    <<"#GPUs", "Docker Image", "IP", "Port", "GPU IDs", "Services">>

\* f"team-{int(team_id):02d}", where int_ok(team_id)
team_prefix_of(team_id) == "team-" \o fmt02d(int(team_id))

\* int(team_id) raises ValueError while this row is checked
ClusterRowRaises(row) ==
    /\ is_cluster_yes(row)
    /\ F(row, "Container Name") # ""
    /\ ~int_ok(F(row, "Team ID"))

\* the violations check_cluster_consistency appends for the row on line idx
ClusterRowViolations(row, idx) ==
    LET team_name == F(row, "Team Name")
        team_id == F(row, "Team ID")
    IN  IF ~is_cluster_yes(row)
        THEN LET ks == Ascending({k \in 1..Len(non_cluster_fields) :
                                     F(row, non_cluster_fields[k]) # ""})
                 non_empty_fields ==
                     [j \in 1..Len(ks) |->
                        non_cluster_fields[ks[j]] \o "='"
                          \o F(row, non_cluster_fields[ks[j]]) \o "'"]
             IN  IF Len(non_empty_fields) > 0
                 THEN <<Violation("non_cluster_has_fields", team_id, team_name, idx,
                                  <<>>, {}, non_empty_fields)>>
                 ELSE <<>>
        ELSE LET ks == Ascending({k \in 1..Len(cluster_required_fields) :
                                     F(row, cluster_required_fields[k]) = ""})
                 empty_fields == [j \in 1..Len(ks) |-> cluster_required_fields[ks[j]]]
                 container_name == F(row, "Container Name")
                 services == F(row, "Services")
             IN  (IF Len(empty_fields) > 0
                  THEN <<Violation("cluster_empty_required", team_id, team_name, idx,
                                   <<>>, {}, empty_fields)>>
                  ELSE <<>>)
              \o (IF container_name # ""
                     /\ ~startswith(lower(container_name), team_prefix_of(team_id))
                  THEN <<Violation("container_name_prefix", team_id, team_name, idx,
                                   <<>>, {},
                                   <<container_name, team_prefix_of(team_id)>>)>>
                  ELSE <<>>)
              \o (IF services # "" /\ ~startswith(lower(services), "ssh")
                  THEN <<Violation("services_prefix", team_id, team_name, idx,
                                   <<>>, {}, <<services>>)>>
                  ELSE <<>>)

check_cluster_consistency(rs) ==
    IF \E i \in 1..Len(rs) : ClusterRowRaises(rs[i])
    THEN Report("check_cluster_consistency", "raise", <<>>)
    ELSE LET violations ==
                 Concat([i \in 1..Len(rs) |-> ClusterRowViolations(rs[i], LineOf(i))])
         IN  Report("check_cluster_consistency", Verdict(violations), violations)

\* a valid set that also admits sshfs
valid_services_with_sshfs == {"ssh", "jupyter-lab", "sshfs"}

valid_services == {"ssh", "jupyter-lab"}

\* the entries compared as they are written, only trimmed
services_list_as_written(services_str) ==
    LET parts == split(services_str, ",")
        ks == Ascending({k \in 1..Len(parts) : strip(parts[k]) # ""})
    IN  [j \in 1..Len(ks) |-> strip(parts[ks[j]])]

\* [s.strip().lower() for s in services_str.split(',') if s.strip()]
services_list_of(services_str) ==
    LET parts == split(services_str, ",")
        ks == Ascending({k \in 1..Len(parts) : strip(parts[k]) # ""})
    IN  [j \in 1..Len(ks) |-> lower(strip(parts[ks[j]]))]

ServicesRowViolations(row, idx) ==
    LET services_str == F(row, "Services")
        services_list == services_list_of(services_str)
        ks == Ascending({k \in 1..Len(services_list) :
                           services_list[k] \notin valid_services})
        invalid_services == [j \in 1..Len(ks) |-> services_list[ks[j]]]
    IN  IF services_str = "" THEN <<>>
        ELSE IF Len(invalid_services) > 0
        THEN <<Violation("invalid_services", F(row, "Team ID"), F(row, "Team Name"),
                         idx, <<>>, {}, invalid_services)>>
        ELSE <<>>

check_services_validity(rs) ==
    LET violations ==
            Concat([i \in 1..Len(rs) |-> ServicesRowViolations(rs[i], LineOf(i))])
    IN  Report("check_services_validity", Verdict(violations), violations)

-----------------------------------------------------------------------------
(* Secret Filler *)

\* positions of the rows filter_cluster_yes_teams keeps
filter_cluster_yes_teams(rs) ==
    Ascending({i \in 1..Len(rs) : is_cluster_yes(rs[i])})

\* the team ids of the active rows, in dict order
ActiveTeams(rs) ==
    LET act == filter_cluster_yes_teams(rs)
    IN  OrderedKeys([k \in 1..Len(act) |-> F(rs[act[k]], "Team ID")])

\* positions of the active rows of one team
ActiveTeamRows(rs, team_id) ==
    Ascending({i \in 1..Len(rs) :
                 is_cluster_yes(rs[i]) /\ F(rs[i], "Team ID") = team_id})

\* a team counts as empty as soon as one of its active rows has no password
any_empty(rs, team_id) ==
    \E i \in Range(ActiveTeamRows(rs, team_id)) : strip(rs[i]["SSH Password"]) = ""

\* all(row['SSH Password'].strip() == '' for row in team_rows)
all_empty(rs, team_id) ==
    \A i \in Range(ActiveTeamRows(rs, team_id)) : strip(rs[i]["SSH Password"]) = ""

\* a filler that gives every active team a new password on every run
TeamsToFillEveryRun(rs) == ActiveTeams(rs)

\* the teams fill_ssh_passwords generates a password for, in dict order
TeamsToFill(rs) ==
    LET teams == ActiveTeams(rs)
        ks == Ascending({t \in 1..Len(teams) : all_empty(rs, teams[t])})
    IN  [j \in 1..Len(ks) |-> teams[ks[j]]]

\* a flag that is set whenever there are active rows
any_generated_if_active(generated, rs) == Len(filter_cluster_yes_teams(rs)) > 0

\* len(passwords_generated) > 0
any_generated(generated, rs) == Len(generated) > 0

\* fill_ssh_passwords, where gen[j] is what the j-th call of
\* generate_random_password returns
fill_ssh_passwords(rs, gen) ==
    LET fill == TeamsToFill(rs)
        slot(team_id) == CHOOSE j \in 1..Len(fill) : fill[j] = team_id
        filled ==
            [i \in 1..Len(rs) |->
               IF is_cluster_yes(rs[i]) /\ F(rs[i], "Team ID") \in Range(fill)
               THEN [rs[i] EXCEPT !["SSH Password"] = gen[slot(F(rs[i], "Team ID"))]]
               ELSE rs[i]]
        generated ==
            [j \in 1..Len(fill) |->
               <<fill[j], F(rs[ActiveTeamRows(rs, fill[j])[1]], "Team Name"), gen[j]>>]
    IN  [rows |-> filled, passwords_generated |-> generated,
         flag |-> any_generated(generated, rs)]

-----------------------------------------------------------------------------
(* Hostname Resolver and inventory variables *)

\* str.endswith(suffix)
endswith(s, suffix) ==
    Len(s) >= Len(suffix) /\ SubSeq(s, Len(s) - Len(suffix) + 1, Len(s)) = suffix

\* position of the first occurrence of sub in s, 0 when absent
RECURSIVE FindFrom(_, _, _)
FindFrom(s, sub, i) ==
    IF i + Len(sub) - 1 > Len(s) THEN 0
    ELSE IF SubSeq(s, i, i + Len(sub) - 1) = sub THEN i
    ELSE FindFrom(s, sub, i + 1)

\* str.replace(old, new), old non-empty
RECURSIVE replace(_, _, _)
replace(s, old, new) ==
    LET i == FindFrom(s, old, 1) IN
    IF i = 0 THEN s
    ELSE SubSeq(s, 1, i - 1) \o new
           \o replace(SubSeq(s, i + Len(old), Len(s)), old, new)

\* re.compile(r'^(\d{1,3}\.){3}\d{1,3}$').match(hostname)
ip_pattern_match(hostname) ==
    LET parts == split(hostname, ".")
    IN  /\ Len(parts) = 4
        /\ \A k \in 1..4 :
              /\ Len(parts[k]) \in 1..3
              /\ \A j \in 1..Len(parts[k]) : IsDigit(Char(parts[k], j))

\* ~/.ssh/config of the operator's account, as readlines() returns it
ssh_config_lines ==
    <<"# cluster nodes\n", "Host node-a\n", "  HostName 10.0.0.5\n",
      "Host node-b\n", "  User root\n">>

\* re.match(r'^<word>\s+(.+)$', line, re.IGNORECASE) on a stripped line:
\* the stripped group, or "" when there is no match
Directive(line, word) ==
    LET n == Len(word)
    IN  IF Len(line) > n + 1 /\ lower(SubSeq(line, 1, n)) = lower(word)
           /\ IsSpace(Char(line, n + 1))
        THEN strip(SubSeq(line, n + 1, Len(line)))
        ELSE ""

\* host_configs after the first k lines: [host |-> current_host, map |-> alias -> target]
RECURSIVE HostConfigs(_, _)
HostConfigs(lines, k) ==
    IF k = 0 THEN [host |-> "", map |-> <<>>]
    ELSE LET prev == HostConfigs(lines, k - 1)
             line == strip(lines[k])
             host == Directive(line, "Host")
             name == Directive(line, "HostName")
         IN  IF line = "" \/ startswith(line, "#") THEN prev
             ELSE IF host # ""
             THEN [prev EXCEPT !.host = host]
             ELSE IF prev.host # "" /\ name # ""
             THEN [prev EXCEPT !.map = (prev.host :> name) @@ @]
             ELSE prev

parse_ssh_config(hostname) ==
    IF ip_pattern_match(hostname) THEN hostname
    ELSE LET host_configs == HostConfigs(ssh_config_lines, Len(ssh_config_lines)).map
         IN  IF hostname \in DOMAIN host_configs THEN host_configs[hostname]
             ELSE hostname

\* read_inventory_vars over the first k lines: [in_vars_section, vars_dict]
RECURSIVE InventoryVars(_, _)
InventoryVars(lines, k) ==
    IF k = 0 THEN [in_vars_section |-> FALSE, vars_dict |-> <<>>]
    ELSE LET prev == InventoryVars(lines, k - 1)
             line == strip(lines[k])
             eq == IndexOf(line, "=")
         IN  IF endswith(line, ":vars]")
             THEN [prev EXCEPT !.in_vars_section = TRUE]
             ELSE IF prev.in_vars_section /\ startswith(line, "[")
             THEN [prev EXCEPT !.in_vars_section = FALSE]
             ELSE IF prev.in_vars_section /\ eq # 0
             THEN [prev EXCEPT !.vars_dict =
                      (strip(SubSeq(line, 1, eq - 1))
                         :> strip(SubSeq(line, eq + 1, Len(line)))) @@ @]
             ELSE prev

read_inventory_vars(lines) == InventoryVars(lines, Len(lines)).vars_dict

\* get_workspace_base: [ok |-> FALSE] is exit(1)
get_workspace_base(lines) ==
    LET inventory_vars == read_inventory_vars(lines)
    IN  IF "data_symlink_path" \notin DOMAIN inventory_vars
        THEN [ok |-> FALSE, path |-> ""]
        ELSE [ok |-> TRUE,
              path |-> replace(inventory_vars["data_symlink_path"],
                               "{{ ansible_env.HOME }}", "$HOME") \o "/data"]

-----------------------------------------------------------------------------
(* Artifact Generators *)

\* container_name if set, else team-XX; needs int_ok(team_id)
container_name_of(row) ==
    IF F(row, "Container Name") # "" THEN F(row, "Container Name")
    ELSE team_prefix_of(F(row, "Team ID"))

\* open(path, 'w').write(content) for each <<path, content>> in turn
RECURSIVE WriteAll(_, _)
WriteAll(files, entries) ==
    IF Len(entries) = 0 THEN files
    ELSE WriteAll((entries[1][1] :> entries[1][2]) @@ files, Tail(entries))

Paths(entries) == [k \in 1..Len(entries) |-> entries[k][1]]

\* the first k in 1..Len(act) whose row makes int(team_id) raise, else Len(act) + 1
FirstRaise(rs, act) ==
    LET bad == {k \in 1..Len(act) : ~int_ok(F(rs[act[k]], "Team ID"))}
    IN  IF bad = {} THEN Len(act) + 1
        ELSE CHOOSE k \in bad : \A j \in bad : k <= j

\* what a generator did: files after it, the writes it made in order, the count
\* it returned, and how it ended ("return", "raise" or "exit")
Outcome(files, entries, stop, total) ==
    [files |-> WriteAll(files, entries), written |-> entries,
     count |-> Len(entries),
     end |-> IF stop <= total THEN "raise" ELSE "return"]

\* a Dockerfile that never gets the Jupyter Lab fragment
dockerfile_content_without_jupyter(row) ==
    <<"FROM " \o F(row, "Docker Image") \o "\n", "# =====Prologue=====",
      "# =====Common Tools=====">>
    \o (IF "ssh" \in Range(services_list_of(F(row, "Services")))
        THEN <<"# =====OpenSSH Server=====">> ELSE <<>>)
    \o <<"# =====Epilogue=====">>

dockerfile_content(row) ==
    LET services_list == services_list_of(F(row, "Services"))
    IN  <<"FROM " \o F(row, "Docker Image") \o "\n", "# =====Prologue=====",
          "# =====Common Tools=====">>
        \o (IF "ssh" \in Range(services_list)
            THEN <<"# =====OpenSSH Server=====">> ELSE <<>>)
        \o (IF "jupyter-lab" \in Range(services_list)
            THEN <<"# =====Jupyter Lab=====">> ELSE <<>>)
        \o <<"# =====Epilogue=====">>

dockerfile_path(row) ==
    "data/dockerfiles/" \o team_prefix_of(F(row, "Team ID"))
        \o "/Dockerfile_" \o container_name_of(row)

create_dockerfiles(rs, files) ==
    LET act == filter_cluster_yes_teams(rs)
        stop == FirstRaise(rs, act)
        entries == [k \in 1..(stop - 1) |->
                      <<dockerfile_path(rs[act[k]]), dockerfile_content(rs[act[k]])>>]
    IN  Outcome(files, entries, stop, Len(act))

\* a smaller stack limit
small_ulimit_stack == "8388608"

default_ulimit_stack == "67108864"

docker_run_content(row, workspace_base_default) ==
    LET cpu_ids == strip(Get(row, "CPU IDs"))
        mem_ids == strip(Get(row, "Mem IDs"))
        memory == strip(Get(row, "Memory"))
        ulimit_stack == strip(Get(row, "Ulimit Stack"))
        gpu_ids == F(row, "GPU IDs")
        optional_flags ==
            (IF cpu_ids # "" THEN <<"--cpuset-cpus " \o cpu_ids>> ELSE <<>>)
         \o (IF mem_ids # "" THEN <<"--cpuset-mems " \o mem_ids>> ELSE <<>>)
         \o (IF memory # "" THEN <<"-m " \o memory, "--memory-swap " \o memory>>
             ELSE <<>>)
         \o (IF gpu_ids # "" THEN <<"--gpus '\"device=" \o gpu_ids \o "\"'">>
             ELSE <<>>)
    IN  [team_name |-> F(row, "Team Name"), team_id |-> F(row, "Team ID"),
         container_name |-> container_name_of(row),
         team_prefix |-> team_prefix_of(F(row, "Team ID")),
         workspace_base |-> workspace_base_default,
         publish |-> F(row, "Port") \o ":22",
         stack_value |-> IF ulimit_stack # "" THEN ulimit_stack
                         ELSE default_ulimit_stack,
         optional_flags |-> optional_flags]

\* a file name made from the Container Name cell alone
docker_run_filename_of_cell(row) == "docker_run_" \o F(row, "Container Name") \o ".sh"

docker_run_filename(row) == "docker_run_" \o container_name_of(row) \o ".sh"

create_docker_run_scripts(rs, files, inventory_lines) ==
    LET act == filter_cluster_yes_teams(rs)
        base == get_workspace_base(inventory_lines)
        stop == FirstRaise(rs, act)
        entries == [k \in 1..(stop - 1) |->
                      <<"data/scripts/" \o docker_run_filename(rs[act[k]]),
                        docker_run_content(rs[act[k]], base.path)>>]
    IN  IF ~base.ok
        THEN [files |-> files, written |-> <<>>, count |-> 0, end |-> "exit"]
        ELSE Outcome(files, entries, stop, Len(act))

\* the node names (IP column) of the active rows, in dict order
Nodes(rs) ==
    LET ks == Ascending({i \in 1..Len(rs) :
                           is_cluster_yes(rs[i]) /\ F(rs[i], "IP") # ""})
    IN  OrderedKeys([k \in 1..Len(ks) |-> F(rs[ks[k]], "IP")])

\* every active row, whatever its node
NodeRowsOfAllNodes(rs, node_name) == Ascending({i \in 1..Len(rs) : is_cluster_yes(rs[i])})

NodeRows(rs, node_name) ==
    Ascending({i \in 1..Len(rs) :
                 is_cluster_yes(rs[i]) /\ F(rs[i], "IP") = node_name})

init_node_content(rs, node_name) ==
    LET node_rows == NodeRows(rs, node_name)
    IN  [node_name |-> node_name,
         docker_run_scripts |->
            [k \in 1..Len(node_rows) |->
               <<container_name_of(rs[node_rows[k]]),
                 docker_run_filename(rs[node_rows[k]])>>]]

\* what running a node-init script prints for each launch script in turn, given
\* how each one fares ("ok", "fail" or "missing"): the if/else of the loop body
\* has no exit, and each launch script runs in a bash of its own
init_node_run(content, fate) ==
    [k \in 1..Len(content.docker_run_scripts) |->
       IF fate[k] = "missing"
       THEN <<"Script not found", content.docker_run_scripts[k][2]>>
       ELSE IF fate[k] = "ok"
       THEN <<"Successfully started", content.docker_run_scripts[k][1]>>
       ELSE <<"Failed to start", content.docker_run_scripts[k][1]>>]

create_init_node_scripts(rs, files) ==
    LET nodes == Nodes(rs)
        bad == {n \in 1..Len(nodes) :
                  \E i \in Range(NodeRows(rs, nodes[n])) : ~int_ok(F(rs[i], "Team ID"))}
        stop == IF bad = {} THEN Len(nodes) + 1
                ELSE CHOOSE n \in bad : \A j \in bad : n <= j
        entries == [n \in 1..(stop - 1) |->
                      <<"data/scripts/init_node_" \o nodes[n] \o ".sh",
                        init_node_content(rs, nodes[n])>>]
    IN  Outcome(files, entries, stop, Len(nodes))

-----------------------------------------------------------------------------
(* Inventory Patcher *)

inventory_line(row) ==
    container_name_of(row) \o " ansible_host=" \o parse_ssh_config(F(row, "IP"))
      \o " ansible_user=root ansible_password=" \o F(row, "SSH Password")
      \o " ansible_port=" \o F(row, "Port")
      \o " ansible_ssh_common_args='-o StrictHostKeyChecking=no -o UserKnownHostsFile=/dev/null'\n"

\* a search that takes the last line for the header when there is none
ContainersSectionIdxOrLast(lines) ==
    LET hits == {i \in 1..Len(lines) : strip(lines[i]) = "[containers]"}
    IN  IF hits = {} THEN Len(lines) ELSE CHOOSE i \in hits : \A j \in hits : i <= j

\* index of the first line that is the [containers] header, 0 when absent
\* (Python's containers_section_idx + 1)
ContainersSectionIdx(lines) ==
    LET hits == {i \in 1..Len(lines) : strip(lines[i]) = "[containers]"}
    IN  IF hits = {} THEN 0 ELSE CHOOSE i \in hits : \A j \in hits : i <= j

\* index of the next section header after line c, Len(lines) + 1 when none
NextSectionIdx(lines, c) ==
    LET hits == {i \in (c + 1)..Len(lines) :
                   startswith(strip(lines[i]), "[") /\ endswith(strip(lines[i]), "]")}
    IN  IF hits = {} THEN Len(lines) + 1 ELSE CHOOSE i \in hits : \A j \in hits : i <= j

\* f.readlines() of the file f.writelines(lines) leaves: a line that does not
\* end in a newline runs into the line written after it
RECURSIVE readlines(_)
readlines(lines) ==
    IF Len(lines) <= 1 THEN lines
    ELSE IF endswith(lines[1], "\n") THEN <<lines[1]>> \o readlines(Tail(lines))
    ELSE readlines(<<lines[1] \o lines[2]>> \o Tail(Tail(lines)))

\* inv is the file: [exists, lines]
update_inventory_containers(rs, inv) ==
    LET act == Ascending({i \in 1..Len(rs) :
                            is_cluster_yes(rs[i]) /\ F(rs[i], "IP") # ""})
        stop == FirstRaise(rs, act)
        containers == [k \in 1..Len(act) |-> inventory_line(rs[act[k]])]
        c == ContainersSectionIdx(inv.lines)
        nxt == NextSectionIdx(inv.lines, c)
        new_lines == SubSeq(inv.lines, 1, c) \o containers
                       \o SubSeq(inv.lines, nxt, Len(inv.lines))
    IN  IF stop <= Len(act)
        THEN [inventory |-> inv, written |-> <<>>, count |-> 0, end |-> "raise"]
        ELSE IF ~inv.exists \/ c = 0
        THEN [inventory |-> inv, written |-> <<>>, count |-> 0, end |-> "return"]
        ELSE [inventory |-> [exists |-> TRUE, lines |-> readlines(new_lines)],
              written |-> <<<<"playbooks/inventory", readlines(new_lines)>>>>,
              count |-> Len(containers), end |-> "return"]

-----------------------------------------------------------------------------
(* Credential-Message Synthesizer *)

\* a message that names the container above every block
message_content_always_named(rs, team_id) ==
    LET team_rows == ActiveTeamRows(rs, team_id)
        block(k) ==
            LET row == rs[team_rows[k]]
            IN  [header |-> "## Container " \o str(k) \o ": " \o container_name_of(row),
                 ip |-> parse_ssh_config(F(row, "IP")),
                 port |-> F(row, "Port"),
                 ssh_password |-> F(row, "SSH Password")]
    IN  [team_name |-> F(rs[team_rows[1]], "Team Name"), team_id |-> team_id,
         blocks |-> [k \in 1..Len(team_rows) |-> block(k)]]

message_content(rs, team_id) ==
    LET team_rows == ActiveTeamRows(rs, team_id)
        block(k) ==
            LET row == rs[team_rows[k]]
            IN  [header |-> IF Len(team_rows) > 1
                            THEN "## Container " \o str(k) \o ": "
                                   \o container_name_of(row)
                            ELSE "",
                 ip |-> parse_ssh_config(F(row, "IP")),
                 port |-> F(row, "Port"),
                 ssh_password |-> F(row, "SSH Password")]
    IN  [team_name |-> F(rs[team_rows[1]], "Team Name"), team_id |-> team_id,
         blocks |-> [k \in 1..Len(team_rows) |-> block(k)]]

message_filename(team_id) == team_prefix_of(team_id) \o "_credentials.txt"

create_team_messages(rs, files) ==
    LET teams == ActiveTeams(rs)
        bad == {t \in 1..Len(teams) : ~int_ok(teams[t])}
        stop == IF bad = {} THEN Len(teams) + 1
                ELSE CHOOSE t \in bad : \A j \in bad : t <= j
        entries == [t \in 1..(stop - 1) |->
                      <<"data/messages/" \o message_filename(teams[t]),
                        message_content(rs, teams[t])>>]
    IN  Outcome(files, entries, stop, Len(teams))

-----------------------------------------------------------------------------
(* __main__ *)

\* generate_random_password(20): secrets.choice over letters and digits
password_length == 20

\* The values the secure random source may return, cut to a few
Passwords == {"aB3dE6gH9jK2mN5pQ8sT", "Zy8Xw7Vu6Ts5Rq4Po3Nm"}

\* a gate that reports the failure and carries on with the next step
GateCarriesOn(status, next) == IF status = "raise" THEN "raise" ELSE next

\* a gate whose last rule is called without the exit: its failure is only printed
GateLastRuleUnchecked(status, next) ==
    IF status = "pass" \/ (status = "fail" /\ next = "fill_ssh_passwords") THEN next
    ELSE IF status = "fail" THEN "exit"
    ELSE "raise"

\* if not check(rows): exit(1); a rule that raised ends the process
Gate(status, next) ==
    IF status = "pass" THEN next
    ELSE IF status = "fail" THEN "exit"
    ELSE "raise"

\* where __main__ goes after a generator
After(end, next) == IF end = "return" THEN next ELSE end

InitWith(tables, inventories) ==
    /\ pc = "read_csv"
    /\ csv_file \in tables
    /\ inventory \in inventories
    /\ rows = <<>>
    /\ fieldnames = <<>>
    /\ log = <<>>
    /\ passwords_generated = <<>>
    /\ passwords_updated = FALSE
    /\ writes = <<>>
    /\ dockerfiles = <<>>
    /\ scripts = <<>>
    /\ messages = <<>>
    /\ counts = <<>>
    /\ previous = [ran |-> FALSE, disk |-> <<>>]

\* existence checks, read_csv_data, the empty-table exit
ReadCsv ==
    /\ pc = "read_csv"
    /\ rows' = csv_file.rows
    /\ fieldnames' = IF Len(csv_file.rows) > 0 THEN csv_file.fieldnames ELSE <<>>
    /\ pc' = IF ~inventory.exists \/ Len(csv_file.rows) = 0 THEN "exit"
             ELSE "check_required_columns"
    /\ UNCHANGED previous
    /\ UNCHANGED <<csv_file, log, passwords_generated, passwords_updated, writes,
                   dockerfiles, scripts, inventory, messages, counts>>

\* one line: if not check_x(rows): exit(1)
RunRule(at, report, next) ==
    /\ pc = at
    /\ log' = Append(log, report)
    /\ pc' = Gate(report.status, next)
    /\ UNCHANGED previous
    /\ UNCHANGED <<csv_file, rows, fieldnames, passwords_generated,
                   passwords_updated, writes, dockerfiles, scripts, inventory,
                   messages, counts>>

CheckRequiredColumns ==
    RunRule("check_required_columns", check_required_columns(rows),
            "check_team_mapping")

CheckTeamMapping ==
    RunRule("check_team_mapping", check_team_mapping(rows), "check_team_consistency")

CheckTeamConsistency ==
    RunRule("check_team_consistency", check_team_consistency(rows),
            "check_cluster_consistency")

CheckClusterConsistency ==
    RunRule("check_cluster_consistency", check_cluster_consistency(rows),
            "check_services_validity")

CheckServicesValidity ==
    RunRule("check_services_validity", check_services_validity(rows),
            "fill_ssh_passwords")

FillSshPasswords ==
    /\ pc = "fill_ssh_passwords"
    /\ \E gen \in [1..Len(TeamsToFill(rows)) -> Passwords] :
          LET res == fill_ssh_passwords(rows, gen)
          IN  /\ rows' = res.rows
              /\ passwords_generated' = res.passwords_generated
              /\ passwords_updated' = res.flag
    /\ pc' = "write_csv_data"
    /\ UNCHANGED previous
    /\ UNCHANGED <<csv_file, fieldnames, log, writes, dockerfiles, scripts,
                   inventory, messages, counts>>

\* if passwords_updated: write_csv_data(csv_file, rows, fieldnames)
WriteCsvData ==
    /\ pc = "write_csv_data"
    /\ csv_file' = IF passwords_updated
                   THEN [fieldnames |-> fieldnames, rows |-> rows]
                   ELSE csv_file
    /\ writes' = IF passwords_updated
                 THEN Append(writes, <<"data/teams.csv",
                                       [fieldnames |-> fieldnames, rows |-> rows]>>)
                 ELSE writes
    /\ pc' = "create_dockerfiles"
    /\ UNCHANGED previous
    /\ UNCHANGED <<rows, fieldnames, log, passwords_generated, passwords_updated,
                   dockerfiles, scripts, inventory, messages, counts>>

CreateDockerfiles ==
    /\ pc = "create_dockerfiles"
    /\ LET out == create_dockerfiles(rows, dockerfiles)
       IN  /\ dockerfiles' = out.files
           /\ writes' = writes \o out.written
           /\ counts' = IF out.end = "return" THEN Append(counts, out.count) ELSE counts
           /\ pc' = After(out.end, "create_docker_run_scripts")
    /\ UNCHANGED previous
    /\ UNCHANGED <<csv_file, rows, fieldnames, log, passwords_generated,
                   passwords_updated, scripts, inventory, messages>>

CreateDockerRunScripts ==
    /\ pc = "create_docker_run_scripts"
    /\ LET out == create_docker_run_scripts(rows, scripts, inventory.lines)
       IN  /\ scripts' = out.files
           /\ writes' = writes \o out.written
           /\ counts' = IF out.end = "return" THEN Append(counts, out.count) ELSE counts
           /\ pc' = After(out.end, "create_init_node_scripts")
    /\ UNCHANGED previous
    /\ UNCHANGED <<csv_file, rows, fieldnames, log, passwords_generated,
                   passwords_updated, dockerfiles, inventory, messages>>

CreateInitNodeScripts ==
    /\ pc = "create_init_node_scripts"
    /\ LET out == create_init_node_scripts(rows, scripts)
       IN  /\ scripts' = out.files
           /\ writes' = writes \o out.written
           /\ counts' = IF out.end = "return" THEN Append(counts, out.count) ELSE counts
           /\ pc' = After(out.end, "update_inventory_containers")
    /\ UNCHANGED previous
    /\ UNCHANGED <<csv_file, rows, fieldnames, log, passwords_generated,
                   passwords_updated, dockerfiles, inventory, messages>>

UpdateInventoryContainers ==
    /\ pc = "update_inventory_containers"
    /\ LET out == update_inventory_containers(rows, inventory)
       IN  /\ inventory' = out.inventory
           /\ writes' = writes \o out.written
           /\ counts' = IF out.end = "return" THEN Append(counts, out.count) ELSE counts
           /\ pc' = After(out.end, "create_team_messages")
    /\ UNCHANGED previous
    /\ UNCHANGED <<csv_file, rows, fieldnames, log, passwords_generated,
                   passwords_updated, dockerfiles, scripts, messages>>

CreateTeamMessages ==
    /\ pc = "create_team_messages"
    /\ LET out == create_team_messages(rows, messages)
       IN  /\ messages' = out.files
           /\ writes' = writes \o out.written
           /\ counts' = IF out.end = "return" THEN Append(counts, out.count) ELSE counts
           /\ pc' = After(out.end, "done")
    /\ UNCHANGED previous
    /\ UNCHANGED <<csv_file, rows, fieldnames, log, passwords_generated,
                   passwords_updated, dockerfiles, scripts, inventory>>

\* the files on disk that the program reads or writes
Disk ==
    [csv_file |-> csv_file, dockerfiles |-> dockerfiles, scripts |-> scripts,
     inventory |-> inventory, messages |-> messages]

\* the operator runs the program again after a run that went through: a new
\* process starts from the files the last one left
Rerun ==
    /\ pc = "done"
    /\ pc' = "read_csv"
    /\ previous' = [ran |-> TRUE, disk |-> Disk]
    /\ rows' = <<>>
    /\ fieldnames' = <<>>
    /\ log' = <<>>
    /\ passwords_generated' = <<>>
    /\ passwords_updated' = FALSE
    /\ writes' = <<>>
    /\ counts' = <<>>
    /\ UNCHANGED <<csv_file, dockerfiles, scripts, inventory, messages>>

\* playbooks/inventory is removed by someone else while the program runs,
\* between the existence check of __main__ and os.path.exists(inventory_path)
InventoryRemoved ==
    /\ pc = "update_inventory_containers"
    /\ inventory.exists
    /\ inventory' = [exists |-> FALSE, lines |-> <<>>]
    /\ UNCHANGED <<pc, csv_file, rows, fieldnames, log, passwords_generated,
                   passwords_updated, writes, dockerfiles, scripts, messages,
                   counts, previous>>

Next ==
    \/ ReadCsv
    \/ CheckRequiredColumns
    \/ CheckTeamMapping
    \/ CheckTeamConsistency
    \/ CheckClusterConsistency
    \/ CheckServicesValidity
    \/ FillSshPasswords
    \/ WriteCsvData
    \/ CreateDockerfiles
    \/ CreateDockerRunScripts
    \/ CreateInitNodeScripts
    \/ UpdateInventoryContainers
    \/ CreateTeamMessages
    \/ Rerun
    \/ InventoryRemoved

-----------------------------------------------------------------------------
(* Inputs: the table files and inventory files the runs start from *)

Row(id, name, cluster, gpus, image, cname, ip, port, gpu_ids, services, pw) ==
    [c \in Range(required_columns) |->
       CASE c = "Team ID" -> id
         [] c = "Team Name" -> name
         [] c = "Cluster" -> cluster
         [] c = "#GPUs" -> gpus
         [] c = "Docker Image" -> image
         [] c = "Container Name" -> cname
         [] c = "IP" -> ip
         [] c = "Port" -> port
         [] c = "GPU IDs" -> gpu_ids
         [] c = "Services" -> services
         [] c = "SSH Password" -> pw]

\* a row of a team without a cluster allocation
Inactive(team_id, team_name) ==
    Row(team_id, team_name, "No", "", "", "", "", "", "", "", "")

\* a row of a team with a cluster allocation
Active(team_id, team_name, container_name, ip, port, services, ssh_password) ==
    Row(team_id, team_name, "Yes", "1", "nvcr.io/nvidia/pytorch:24.01-py3",
        container_name, ip, port, "0", services, ssh_password)

Table(rs) == [fieldnames |-> required_columns, rows |-> rs]

\* every table of 1..n rows drawn from a set of rows
TablesOf(rowset, n) == {Table(rs) : rs \in UNION {[1..k -> rowset] : k \in 1..n}}

InventoryFull ==
    [exists |-> TRUE,
     lines |-> <<"[nodes]\n", "node-a ansible_host=10.0.0.5\n", "\n",
                 "[nodes:vars]\n",
                 "data_symlink_path={{ ansible_env.HOME }}/hackathon\n", "\n",
                 "[containers]\n", "stale ansible_host=10.9.9.9\n", "\n",
                 "[containers:vars]\n",
                 "ansible_python_interpreter=/usr/bin/python3\n">>]

InventoryNoContainers ==
    [exists |-> TRUE,
     lines |-> <<"[nodes]\n", "node-a ansible_host=10.0.0.5\n", "\n",
                 "[nodes:vars]\n", "data_symlink_path=/mnt/hackathon\n">>]

InventoryNoPath ==
    [exists |-> TRUE,
     lines |-> <<"[nodes]\n", "node-a ansible_host=10.0.0.5\n",
                 "[containers]\n">>]

MaxRows == 2

\* rows that between them pass or fail each of the five rules
MixedRows ==
    { Active("1", "Alpha", "", "node-a", "2201", "ssh", ""),
      Active("1", "Alpha", "team-01-b", "node-a", "2202", "ssh,jupyter-lab", ""),
      Active("2", "Beta", "", "10.0.0.6", "2201", "ssh", "Zq4Xw7Vu6Ts5Rq4Po3Nm"),
      Inactive("3", "Gamma"),
      Active("1", "Beta", "", "node-a", "2203", "ssh", ""),
      Active("1", "Alpha", "", "node-b", "2201", "ssh", ""),
      Row("3", "Gamma", "No", "", "", "", "", "2203", "", "", ""),
      Active("2", "Beta", "", "10.0.0.6", "2202", "ssh,ftp", ""),
      Active("x", "Chi", "", "node-a", "2209", "ssh", ""),
      Active("x", "Chi", "rig", "node-a", "2210", "ssh", "") }

\* a table whose header lacks a required column
TableMissingColumn ==
    [fieldnames |-> SubSeq(required_columns, 1, Len(required_columns) - 1),
     rows |-> <<[c \in Range(required_columns) \ {"SSH Password"} |->
                   Inactive("3", "Gamma")[c]]>>]

\* a table file with a header and no data rows
TableEmpty == Table(<<>>)

MixedTables == TablesOf(MixedRows, MaxRows) \cup {TableMissingColumn, TableEmpty}

MaxMappingRows == 3

\* rows that differ in team id and team name only, some padded with blanks
MappingRows ==
    {Inactive(id, name) : id \in {"1", "1 ", "2"}, name \in {"Alpha", " Alpha", "Beta"}}

InitMapping == InitWith(TablesOf(MappingRows, MaxMappingRows), {InventoryFull})

SpecMapping == InitMapping /\ [][Next]_vars

MaxTeamRows == 4

\* active rows of two teams that agree or clash in IP, password, port and
\* container name
TeamRows ==
    { Active("1", "Alpha", "", "node-a", "2201", "ssh", ""),
      Active("1", "Alpha", "team-01-b", "node-a", "2202", "ssh", ""),
      Active("1", "Alpha", "team-01-b", "node-b", "2201", "ssh", "pwX"),
      Active("1", "Alpha", "", "", "", "ssh", "pwY"),
      Active("1", "Alpha", "team-01-c", "node-a", " 2201", "ssh", "pwX"),
      Active("2", "Beta", "", "node-a", "2201", "ssh", ""),
      Active("2", "Beta", "", "node-b", "2201", "ssh", "") }

InitTeam == InitWith(TablesOf(TeamRows, MaxTeamRows), {InventoryFull})

SpecTeam == InitTeam /\ [][Next]_vars

MaxClusterRows == 2

\* rows of one team that pass or break each clause of the two cluster policies
ClusterShapes(id, name, pfx) ==
    { Inactive(id, name),
      Row(id, name, "No", "", "", "", "", "2203", "", "", ""),
      Row(id, name, "", "", "", pfx, "", "", "", "", ""),
      Row(id, name, "yes please", "", "", "", "node-a", "", "", "", ""),
      Row(id, name, "No", "", "", "", "", "", "0,1", "ssh", "pwX"),
      Row(id, name, "No", "2", "img", "", "", "  ", "", "", ""),
      Active(id, name, "", "node-a", "22" \o id, "ssh", ""),
      Row(id, name, " y ", "1", "img", pfx \o "-b", "node-a", "23" \o id, "0",
          "SSH,jupyter-lab", "pwX"),
      Active(id, name, upper(pfx), "node-a", "24" \o id, "ssh", ""),
      Active(id, name, "rig", "node-a", "25" \o id, "ssh", ""),
      Row(id, name, "YES", "", "img", "", "node-a", "26" \o id, "0", "ssh", ""),
      Row(id, name, "Yes", "1", "", "", "", "27" \o id, "0", "ssh", ""),
      Row(id, name, "Yes", "1", "img", "", "node-a", "", "", "", ""),
      Active(id, name, "", "node-a", "28" \o id, "jupyter-lab,ssh", ""),
      Active(id, name, "", "node-a", "29" \o id, "sshfs", "") }

\* the teams a row in position p may belong to: <<team id, team name, prefix>>
ClusterTeamsAt(p) ==
    IF p = 2 THEN {<<"2", "Beta", "team-02">>, <<"x", "Chi", "team-0x">>}
    ELSE {<<str(p), "Team" \o str(p), "team-" \o fmt02d(p)>>}

\* tables of n rows whose p-th row is a row of a team of position p
RECURSIVE ClusterRowLists(_)
ClusterRowLists(n) ==
    IF n = 0 THEN {<<>>}
    ELSE {Append(rs, r) :
            rs \in ClusterRowLists(n - 1),
            r \in UNION {ClusterShapes(t[1], t[2], t[3]) : t \in ClusterTeamsAt(n)}}

ClusterTables == {Table(rs) : rs \in UNION {ClusterRowLists(k) : k \in 1..MaxClusterRows}}

InitCluster == InitWith(ClusterTables, {InventoryFull})

SpecCluster == InitCluster /\ [][Next]_vars

MaxServicesRows == 2

ServicesValues ==
    {"ssh", "ssh, jupyter-lab", "SSH", "ssh,ftp", "ssh,FTP ,http", "ssh,,jupyter-lab",
     "sshfs"}

\* rows of the team of position p that pass the first four rules
ServicesRowsAt(p) ==
    {Inactive(str(p), "Team" \o str(p))}
      \cup {Active(str(p), "Team" \o str(p), "", "node-a", "22" \o str(p), sv, "") :
              sv \in ServicesValues}

RECURSIVE ServicesRowLists(_)
ServicesRowLists(n) ==
    IF n = 0 THEN {<<>>}
    ELSE {Append(rs, r) : rs \in ServicesRowLists(n - 1), r \in ServicesRowsAt(n)}

ServicesTables ==
    {Table(rs) : rs \in UNION {ServicesRowLists(k) : k \in 1..MaxServicesRows}}

InitServices == InitWith(ServicesTables, {InventoryFull})

SpecServices == InitServices /\ [][Next]_vars

MaxFillRows == 3

\* rows of two teams whose passwords are all, partly or not at all empty
FillRows ==
    {Active("1", "Alpha", "", "node-a", "2201", "ssh", pw) : pw \in {"", "pwA"}}
      \cup {Active("1", "Alpha", "", "node-a", "2202", "ssh", pw) : pw \in {" ", "pwA"}}
      \cup {Active("2", "Beta", "", "node-a", "2203", "ssh", pw) : pw \in {"", "pwB"}}
      \cup {Inactive("1", "Alpha")}

InitFill == InitWith(TablesOf(FillRows, MaxFillRows), {InventoryFull})

SpecFill == InitFill /\ [][Next]_vars

MaxLaunchRows == 2

optional_columns == <<"CPU IDs", "Mem IDs", "Memory", "Ulimit Stack">>

Extras(cpu_ids, mem_ids, memory, ulimit_stack) ==
    ("CPU IDs" :> cpu_ids) @@ ("Mem IDs" :> mem_ids) @@ ("Memory" :> memory)
      @@ ("Ulimit Stack" :> ulimit_stack)

\* the optional cells of a row: none set, one set, all set
LaunchExtras ==
    {Extras("", "", "", ""), Extras("0-7", "", "", ""), Extras("", "0", "", ""),
     Extras("", "", "64g", ""), Extras("", "", "", " 8192 "),
     Extras("0-7", "0,1", " ", "8192"), Extras("8-15", "1", "32g", "")}

\* the active row of the team of position p
LaunchRow(p) ==
    Active(str(p), "Team" \o str(p), "", "node-a", "22" \o str(p), "ssh", "pwX")

\* tables of n rows with the optional columns
RECURSIVE LaunchRowLists(_)
LaunchRowLists(n) ==
    IF n = 0 THEN {<<>>}
    ELSE {Append(rs, LaunchRow(n) @@ ext) : rs \in LaunchRowLists(n - 1), ext \in LaunchExtras}

\* tables with the optional columns, and tables without them
LaunchTables ==
    {[fieldnames |-> required_columns \o optional_columns, rows |-> rs] :
        rs \in UNION {LaunchRowLists(k) : k \in 1..MaxLaunchRows}}
      \cup {Table([p \in 1..k |-> LaunchRow(p)]) : k \in 1..MaxLaunchRows}

InitLaunch == InitWith(LaunchTables, {InventoryFull})

SpecLaunch == InitLaunch /\ [][Next]_vars

MaxInventoryRows == 2

\* rows of valid tables: two containers of one team, a team on a node that
\* is given by address, a team without allocation
InventoryRows ==
    { Active("1", "Alpha", "", "node-a", "2201", "ssh", "pwA"),
      Active("1", "Alpha", "team-01-b", "node-a", "2202", "ssh", "pwA"),
      Active("2", "Beta", "", "10.0.0.6", "2201", "ssh", ""),
      Inactive("3", "Gamma") }

NodesSection ==
    <<"[nodes]\n", "node-a ansible_host=10.0.0.5\n", "\n", "[nodes:vars]\n",
      "data_symlink_path=/mnt/hackathon\n", "\n">>

\* the [containers] section is the last one and has a body
InventoryContainersLast ==
    [exists |-> TRUE,
     lines |-> NodesSection \o <<"  [containers]  \n", "# filled in by compile.py\n",
                                 "stale ansible_host=10.9.9.9">>]

\* the file ends with the [containers] header and a newline
InventoryHeaderLast ==
    [exists |-> TRUE, lines |-> NodesSection \o <<"[containers]\n">>]

\* the file ends with the [containers] header, without a newline
InventoryHeaderLastNoNewline ==
    [exists |-> TRUE, lines |-> NodesSection \o <<"[containers]">>]

Inventories ==
    {InventoryFull, InventoryNoContainers, InventoryContainersLast,
     InventoryHeaderLast, InventoryHeaderLastNoNewline}

InitInventory == InitWith(TablesOf(InventoryRows, MaxInventoryRows), Inventories)

SpecInventory == InitInventory /\ [][Next]_vars

Init == InitWith(MixedTables, {InventoryFull, InventoryNoContainers, InventoryNoPath})

Spec == Init /\ [][Next]_vars

-----------------------------------------------------------------------------
(* Properties of the gate and of the run as a whole *)

RuleOrder ==
    <<"check_required_columns", "check_team_mapping", "check_team_consistency",
      "check_cluster_consistency", "check_services_validity">>

SomeRuleFailed == \E i \in 1..Len(log) : log[i].status = "fail"

\* all five rules ran and passed
Validated == Len(log) = Len(RuleOrder) /\ \A i \in 1..Len(log) : log[i].status = "pass"

CsvPath == "data/teams.csv"

CsvWrites == {k \in 1..Len(writes) : writes[k][1] = CsvPath}

\* the paths written so far in this run
WrittenPaths == Range(Paths(writes))

\* C1: the rules run in the order schema, identity mapping, intra-team
\* consistency, cluster-field consistency, service validity, and no rule runs
\* after the first rule that fails: every report but the last is a pass, and a
\* failed rule leaves the run at exit(1).
C1_FixedOrderStopsAtFirstFailure ==
    /\ Len(log) <= Len(RuleOrder)
    /\ \A i \in 1..Len(log) : log[i].rule = RuleOrder[i]
    /\ \A i \in 1..(Len(log) - 1) : log[i].status = "pass"
    /\ SomeRuleFailed => pc = "exit"

\* a run stopped by its third rule, after two rules passed
C1_Witness ==
    /\ pc = "exit"
    /\ Len(log) = 3
    /\ log[3].status = "fail"
    /\ log[1].status = "pass" /\ log[2].status = "pass"

\* C2: once a rule has failed nothing is generated: no password, no write of
\* the table file, no Dockerfile, script, message, and the inventory file is
\* not written.
C2_FailureHaltsBeforeGeneration ==
    SomeRuleFailed =>
        /\ passwords_generated = <<>>
        /\ ~passwords_updated
        /\ writes = <<>>
        /\ dockerfiles = <<>> /\ scripts = <<>> /\ messages = <<>>
        /\ rows = csv_file.rows
        /\ counts = <<>>

\* the last rule failed on a table that holds an active team without a password
C2_Witness ==
    /\ pc = "exit"
    /\ Len(log) = 5 /\ log[5].status = "fail"
    /\ \E i \in 1..Len(rows) :
          is_cluster_yes(rows[i]) /\ F(rows[i], "SSH Password") = ""

\* C10: the flag is true iff the filler changed a row; the table file is
\* written iff the flag is true, as the first write of the run and once, with
\* the filled rows; without a generated password it is never written.
C10_WriteBackIffFlag ==
    /\ pc = "write_csv_data" =>
          /\ passwords_updated <=> (rows # csv_file.rows)
          /\ passwords_updated <=> (passwords_generated # <<>>)
    /\ (~Validated \/ pc \in {"fill_ssh_passwords", "write_csv_data"}) =>
          CsvWrites = {}
    /\ (Validated /\ pc \notin {"fill_ssh_passwords", "write_csv_data"}) =>
          /\ passwords_updated <=> (CsvWrites # {})
          /\ passwords_updated => CsvWrites = {1} /\ csv_file.rows = rows
          /\ passwords_updated <=> (passwords_generated # <<>>)

\* a run that generated a password, wrote the table and then wrote artifacts
C10_Witness ==
    /\ pc = "done"
    /\ passwords_updated
    /\ Len(writes) > 1
    /\ writes[1][1] = CsvPath

-----------------------------------------------------------------------------
(* Properties of the rules; a field's value is the stripped cell, as every
   rule reads it *)

\* the report of a rule, once the rule has run
Ran(k) == Len(log) >= k

Ids(rs) == {F(rs[i], "Team ID") : i \in 1..Len(rs)}

Names(rs) == {F(rs[i], "Team Name") : i \in 1..Len(rs)}

\* team_id <-> team_name is a bijection over the rows
Bijection(rs) ==
    \A i, j \in 1..Len(rs) :
        (F(rs[i], "Team ID") = F(rs[j], "Team ID"))
            <=> (F(rs[i], "Team Name") = F(rs[j], "Team Name"))

\* the collisions of a table: each team id with several names, each team name
\* with several ids
Collisions(rs) ==
    {Violation("id_maps_to_names", id, "", 0, <<>>,
               {F(rs[i], "Team Name") : i \in {j \in 1..Len(rs) : F(rs[j], "Team ID") = id}},
               <<>>) :
        id \in {x \in Ids(rs) :
                  \E i, j \in 1..Len(rs) :
                     /\ F(rs[i], "Team ID") = x /\ F(rs[j], "Team ID") = x
                     /\ F(rs[i], "Team Name") # F(rs[j], "Team Name")}}
    \cup
    {Violation("name_maps_to_ids", "", nm, 0, <<>>,
               {F(rs[i], "Team ID") : i \in {j \in 1..Len(rs) : F(rs[j], "Team Name") = nm}},
               <<>>) :
        nm \in {x \in Names(rs) :
                  \E i, j \in 1..Len(rs) :
                     /\ F(rs[i], "Team Name") = x /\ F(rs[j], "Team Name") = x
                     /\ F(rs[i], "Team ID") # F(rs[j], "Team ID")}}

\* C3: check_team_mapping passes exactly when team_id <-> team_name is a
\* bijection over the rows, and when it fails it reports every colliding team
\* id with its names and every colliding team name with its ids, each once.
C3_MappingPassesIffBijection ==
    Ran(2) =>
        /\ (log[2].status = "pass") <=> Bijection(rows)
        /\ Range(log[2].violations) = Collisions(rows)
        /\ Len(log[2].violations) = Cardinality(Collisions(rows))

\* the rule failed on a table that collides in both directions
C3_Witness ==
    /\ Ran(2)
    /\ log[2].status = "fail"
    /\ \E v, w \in Range(log[2].violations) :
          v.kind = "id_maps_to_names" /\ w.kind = "name_maps_to_ids"

\* positions of the rows of a team
Members(rs, id) == {i \in 1..Len(rs) : F(rs[i], "Team ID") = id}

\* the non-empty values of a column agree within every team
Agree(rs, col) ==
    \A i, j \in 1..Len(rs) :
        (/\ F(rs[i], "Team ID") = F(rs[j], "Team ID")
         /\ F(rs[i], col) # "" /\ F(rs[j], col) # "") => F(rs[i], col) = F(rs[j], col)

\* the non-empty values of a column are pairwise distinct within every team
Distinct(rs, col) ==
    \A i, j \in 1..Len(rs) :
        (/\ i # j /\ F(rs[i], "Team ID") = F(rs[j], "Team ID")
         /\ F(rs[i], col) # "" /\ F(rs[j], col) # "") => F(rs[i], col) # F(rs[j], col)

\* the violations of one team: what is wrong, not how it is printed
TeamFaults(rs, id) ==
    LET M == Members(rs, id)
        clash(col) == \E i, j \in M : F(rs[i], col) # "" /\ F(rs[j], col) # ""
                                        /\ F(rs[i], col) # F(rs[j], col)
        repeated(col) == {v \in {F(rs[i], col) : i \in M} \ {""} :
                            \E i, j \in M : i # j /\ F(rs[i], col) = v /\ F(rs[j], col) = v}
    IN  (IF clash("IP") THEN {<<id, "multiple_ips", "">>} ELSE {})
        \cup (IF clash("SSH Password") THEN {<<id, "multiple_ssh_passwords", "">>} ELSE {})
        \cup {<<id, "duplicate_port", v>> : v \in repeated("Port")}
        \cup {<<id, "duplicate_container_name", v>> : v \in repeated("Container Name")}

Faults(rs) == UNION {TeamFaults(rs, id) : id \in Ids(rs)}

\* what a printed violation of check_team_consistency is about
FaultOf(v) == <<v.team_id, v.kind, IF Len(v.list) > 0 THEN v.list[1] ELSE "">>

C8_LineNumbers ==
    /\ Ran(3) =>
          \A v \in Range(log[3].violations) :
              v.kind = "duplicate_port" =>
                  LET sharing == {i \in Members(rows, v.team_id) :
                                    F(rows[i], "Port") = v.list[1]}
                  IN  /\ Range(v.lines) = {i + 1 : i \in sharing}
                      /\ Len(v.lines) = Cardinality(sharing)
                      /\ \A a, b \in 1..Len(v.lines) : a < b => v.lines[a] < v.lines[b]
    /\ Ran(4) =>
          \A v \in Range(log[4].violations) :
              /\ v.line \in 2..(Len(rows) + 1)
              /\ v.kind = "cluster_empty_required" =>
                    /\ is_cluster_yes(rows[v.line - 1])
                    /\ Range(v.list) = {f \in Range(cluster_required_fields) :
                                          F(rows[v.line - 1], f) = ""}

\* rows 2 and 4 of a team share a port that row 3 does not carry
C8_Witness ==
    /\ Ran(3)
    /\ \E v \in Range(log[3].violations) :
          /\ v.kind = "duplicate_port"
          /\ v.lines = <<2, 4>>
          /\ F(rows[2], "Team ID") = v.team_id

\* the cluster flag selects the active policy: the trimmed flag is yes or y,
\* in any letter case
ActiveFlag(row) == lower(strip(row["Cluster"])) \in {"yes", "y"}

\* the violations of the cluster rule that are about the row in position i
ClusterFlags(i) == {v \in Range(log[4].violations) : v.line = i + 1}

InactiveKinds == {"non_cluster_has_fields"}

ActiveKinds == {"cluster_empty_required", "container_name_prefix", "services_prefix"}

\* field='value' for each of the six fields of an inactive row that is not empty
Offending(row) ==
    LET ks == Ascending({k \in 1..Len(non_cluster_fields) :
                           F(row, non_cluster_fields[k]) # ""})
    IN  [j \in 1..Len(ks) |->
           non_cluster_fields[ks[j]] \o "='" \o F(row, non_cluster_fields[ks[j]]) \o "'"]

\* C5: every row is checked under exactly one policy, chosen by its cluster
\* flag; an inactive row is flagged exactly when one of container_name, ip,
\* port, gpu_ids, services, ssh_password is not empty, by one violation that
\* names each offending field with its value, and every offending row is
\* reported.
C5_InactivePolicy ==
    Ran(4) =>
        \A i \in 1..Len(rows) :
            /\ \A v \in ClusterFlags(i) :
                  v.kind \in (IF ActiveFlag(rows[i]) THEN ActiveKinds ELSE InactiveKinds)
            /\ ~ActiveFlag(rows[i]) =>
                  /\ (ClusterFlags(i) # {}) <=> (Len(Offending(rows[i])) > 0)
                  /\ \A v \in ClusterFlags(i) : v.list = Offending(rows[i])
                  /\ Cardinality(ClusterFlags(i)) <= 1

\* the required fields of an active row that are empty
Missing(row) == {f \in Range(cluster_required_fields) : F(row, f) = ""}

\* team-<2-digit team id> of a row
Prefix(row) == "team-" \o fmt02d(int(F(row, "Team ID")))

\* the container name of an active row is set and does not start with
\* team-<2-digit team id> (a team id that is no number has no such prefix)
BadContainerName(row) ==
    /\ F(row, "Container Name") # ""
    /\ int_ok(F(row, "Team ID")) => ~startswith(F(row, "Container Name"), Prefix(row))

BadServicesStart(row) ==
    F(row, "Services") # "" /\ ~startswith(F(row, "Services"), "ssh")

\* C6: an active row is flagged exactly when a required field is empty, or its
\* container name is set and does not start with team-<2-digit team id>, or
\* its services are set and do not start with ssh; the rule fails iff some row
\* is flagged.
C6_ActivePolicy ==
    Ran(4) =>
        /\ \A i \in 1..Len(rows) :
              ActiveFlag(rows[i]) =>
                  ((ClusterFlags(i) # {}) <=>
                      (\/ Missing(rows[i]) # {}
                       \/ BadContainerName(rows[i])
                       \/ BadServicesStart(rows[i])))
        /\ (log[4].status = "fail") <=> (log[4].violations # <<>>)
        /\ (log[4].status = "pass") <=> (log[4].violations = <<>>)

\* the violations of the services rule that are about the row in position i
ServiceFlags(i) == {v \in Range(log[5].violations) : v.line = i + 1}

AllowedServices == {"ssh", "jupyter-lab"}

\* the comma-split entries of a services value, each trimmed
Entries(row) ==
    LET parts == split(F(row, "Services"), ",")
    IN  [k \in 1..Len(parts) |-> strip(parts[k])]

\* the entries that are not in the allowed set, as written
InvalidAsWritten(row) == SelectSeq(Entries(row), LAMBDA e : e \notin AllowedServices)

\* the entries that are not empty, in lower case
NormalEntries(row) ==
    LET kept == SelectSeq(Entries(row), LAMBDA e : e # "")
    IN  [k \in 1..Len(kept) |-> lower(kept[k])]

\* the normalised entries that are not in the allowed set
InvalidNormal(row) == SelectSeq(NormalEntries(row), LAMBDA e : e \notin AllowedServices)

\* the services rule has just returned
ServicesJustRan == Ran(5) /\ pc \in {"fill_ssh_passwords", "exit"}

\* C7 as stated: the rule fails exactly when some row has a services value
\* with a comma-split entry outside {ssh, jupyter-lab}, the violation of such a
\* row names exactly its invalid entries, and a row with empty services is
\* never flagged.
C7_AsStated ==
    ServicesJustRan =>
        /\ (log[5].status = "fail") <=>
              (\E i \in 1..Len(rows) :
                  F(rows[i], "Services") # "" /\ InvalidAsWritten(rows[i]) # <<>>)
        /\ \A i \in 1..Len(rows) :
              IF F(rows[i], "Services") = "" \/ InvalidAsWritten(rows[i]) = <<>>
              THEN ServiceFlags(i) = {}
              ELSE \E v \in ServiceFlags(i) : v.list = InvalidAsWritten(rows[i])

\* C7: the rule fails exactly when some row has a services value with an
\* entry that, trimmed and in lower case, is not empty and is outside
\* {ssh, jupyter-lab}; such a row has one violation that names exactly those
\* entries in lower case, and no other row, so no row with empty services, is
\* flagged.
C7_ServicesValidity ==
    ServicesJustRan =>
        /\ (log[5].status = "fail") <=>
              (\E i \in 1..Len(rows) : InvalidNormal(rows[i]) # <<>>)
        /\ (log[5].status = "pass") <=>
              (\A i \in 1..Len(rows) : InvalidNormal(rows[i]) = <<>>)
        /\ \A i \in 1..Len(rows) :
              IF InvalidNormal(rows[i]) = <<>>
              THEN ServiceFlags(i) = {}
              ELSE /\ Cardinality(ServiceFlags(i)) = 1
                   /\ \A v \in ServiceFlags(i) : v.list = InvalidNormal(rows[i])

\* a row with services ssh,FTP ,http is flagged with ftp and http, next to a
\* row whose services are written SSH and that is not flagged
C7_Witness ==
    /\ ServicesJustRan
    /\ \E i \in 1..Len(rows) :
          /\ F(rows[i], "Services") = "ssh,FTP ,http"
          /\ \E v \in ServiceFlags(i) : v.list = <<"ftp", "http">>
    /\ \E i \in 1..Len(rows) :
          F(rows[i], "Services") = "SSH" /\ ServiceFlags(i) = {}

\* the table before the fill step (the file is not written before the step
\* after it)
Before == csv_file.rows

ActiveRowsOf(rs, id) == {i \in Members(rs, id) : ActiveFlag(rs[i])}

\* all active rows of a team have an empty password, and there is one
AllActiveEmpty(rs, id) ==
    /\ ActiveRowsOf(rs, id) # {}
    /\ \A i \in ActiveRowsOf(rs, id) : F(rs[i], "SSH Password") = ""

\* the teams the fill step reports a generated password for
Generated == {g[1] : g \in Range(passwords_generated)}

\* C9: a team is assigned a generated password iff all its active rows have
\* an empty password, and then all its active rows get the same single value;
\* teams with a non-empty password and all inactive rows are left untouched;
\* a second application assigns nothing and returns the no-change flag.
C9_FillIffAllEmpty ==
    pc = "write_csv_data" =>
        /\ Len(rows) = Len(Before)
        /\ \A id \in Ids(Before) :
              /\ (id \in Generated) <=> AllActiveEmpty(Before, id)
              /\ IF AllActiveEmpty(Before, id)
                 THEN \E g \in Range(passwords_generated) :
                         /\ g[1] = id
                         /\ g[3] \in Passwords
                         /\ \A i \in ActiveRowsOf(Before, id) :
                               rows[i] = [Before[i] EXCEPT !["SSH Password"] = g[3]]
                 ELSE \A i \in Members(Before, id) : rows[i] = Before[i]
        /\ \A i \in 1..Len(rows) : ~ActiveFlag(Before[i]) => rows[i] = Before[i]
        /\ \A gen \in [1..Len(TeamsToFill(rows)) -> Passwords] :
              /\ fill_ssh_passwords(rows, gen).rows = rows
              /\ fill_ssh_passwords(rows, gen).flag = FALSE
              /\ fill_ssh_passwords(rows, gen).passwords_generated = <<>>

\* one team is filled while a team with one password set and one empty is
\* left as it was
C9_Witness ==
    /\ pc = "write_csv_data"
    /\ \E id \in Ids(Before) :
          /\ AllActiveEmpty(Before, id)
          /\ \E i \in ActiveRowsOf(Before, id) : rows[i] # Before[i]
    /\ \E id \in Ids(Before) :
          /\ \E i, j \in ActiveRowsOf(Before, id) :
                F(Before[i], "SSH Password") = "" /\ F(Before[j], "SSH Password") # ""
          /\ \A i \in Members(Before, id) : rows[i] = Before[i]

-----------------------------------------------------------------------------
(* Properties of the generators *)

\* the paths of the files in the three output directories
OutputPaths == DOMAIN dockerfiles \cup DOMAIN scripts \cup DOMAIN messages

\* C11: when the program is run again on the files a complete run left, with
\* no edit from outside, the second run passes validation again, generates no
\* password, does not rewrite the table, and leaves the table, the
\* Dockerfiles, the scripts, the messages and the inventory file as the first
\* run left them, having written every output file again.
C11_RerunIdentical ==
    (previous.ran /\ inventory.exists) =>
        /\ pc \notin {"exit", "raise"}
        /\ \A k \in 1..Len(log) : log[k].status = "pass"
        /\ passwords_generated = <<>> /\ ~passwords_updated
        /\ CsvWrites = {}
        /\ Disk = previous.disk
        /\ pc = "done" => OutputPaths \subseteq WrittenPaths

\* a second run is through, after a first run that generated a password and
\* wrote it to the table
C11_Witness ==
    /\ previous.ran
    /\ pc = "done"
    /\ inventory.exists
    /\ Len(writes) > 0
    /\ \E i \in 1..Len(csv_file.rows) : csv_file.rows[i]["SSH Password"] \in Passwords

\* the effective container name of an active row
Effective(row) ==
    IF F(row, "Container Name") # "" THEN F(row, "Container Name")
    ELSE "team-" \o fmt02d(int(F(row, "Team ID")))

\* the generators that have returned in this run, in the order of __main__
Returned(k) == Len(counts) >= k

LaunchPath(row) == "data/scripts/docker_run_" \o Effective(row) \o ".sh"

NodeInitPath(row) == "data/scripts/init_node_" \o F(row, "IP") \o ".sh"

MessagePath(row) ==
    "data/messages/team-" \o fmt02d(int(F(row, "Team ID"))) \o "_credentials.txt"

InventoryPath == "playbooks/inventory"

\* sub occurs in s
Contains(s, sub) ==
    \E o \in 1..(Len(s) - Len(sub) + 1) : SubSeq(s, o, o + Len(sub) - 1) = sub

\* C12: for every active row the effective container name is the container
\* name if set, else team-<2-digit id>, and the Dockerfile path, the launch
\* script, the node-init reference, the inventory line and the credential
\* message of the row all carry that name; every launch script a node-init
\* script written in this run refers to is written in the same run.
C12_OneEffectiveName ==
    /\ \A i \in 1..Len(rows) :
          ActiveFlag(rows[i]) =>
              /\ Returned(1) =>
                    \E p \in DOMAIN dockerfiles :
                        endswith(p, "/Dockerfile_" \o Effective(rows[i]))
              /\ Returned(2) =>
                    /\ LaunchPath(rows[i]) \in DOMAIN scripts
                    /\ scripts[LaunchPath(rows[i])].container_name = Effective(rows[i])
              /\ Returned(3) =>
                    /\ NodeInitPath(rows[i]) \in DOMAIN scripts
                    /\ <<Effective(rows[i]), "docker_run_" \o Effective(rows[i]) \o ".sh">>
                          \in Range(scripts[NodeInitPath(rows[i])].docker_run_scripts)
              /\ (Returned(4) /\ InventoryPath \in WrittenPaths) =>
                    \E k \in 1..Len(inventory.lines) :
                        Contains(inventory.lines[k], Effective(rows[i]) \o " ansible_host=")
              /\ (Returned(5) /\ Cardinality(ActiveRowsOf(rows, F(rows[i], "Team ID"))) > 1) =>
                    \E b \in Range(messages[MessagePath(rows[i])].blocks) :
                        endswith(b.header, ": " \o Effective(rows[i]))
    /\ \A p \in WrittenPaths :
          startswith(p, "data/scripts/init_node_") =>
              \A ref \in Range(scripts[p].docker_run_scripts) :
                  /\ "data/scripts/" \o ref[2] \in WrittenPaths
                  /\ "data/scripts/" \o ref[2] \in DOMAIN scripts

\* a run is through on a table with a named and an unnamed container of one
\* team
C12_Witness ==
    /\ pc = "done"
    /\ Returned(5)
    /\ InventoryPath \in WrittenPaths
    /\ \E i, j \in 1..Len(rows) :
          /\ ActiveFlag(rows[i]) /\ ActiveFlag(rows[j])
          /\ F(rows[i], "Team ID") = F(rows[j], "Team ID")
          /\ F(rows[i], "Container Name") = ""
          /\ F(rows[j], "Container Name") # ""

\* the positions of the active rows, in table order
ActiveRows == Ascending({i \in 1..Len(rows) : ActiveFlag(rows[i])})

\* the writes of this run below a directory, in order
WritesBelow(dir) ==
    LET ks == Ascending({k \in 1..Len(writes) : startswith(writes[k][1], dir)})
    IN  [j \in 1..Len(ks) |-> writes[ks[j]]]

\* the parts of a Dockerfile, in the order of the file
DockerfileParts(image, with_ssh, with_jupyter) ==
    <<"FROM " \o image \o "\n", "# =====Prologue=====", "# =====Common Tools=====">>
    \o (IF with_ssh THEN <<"# =====OpenSSH Server=====">> ELSE <<>>)
    \o (IF with_jupyter THEN <<"# =====Jupyter Lab=====">> ELSE <<>>)
    \o <<"# =====Epilogue=====">>

\* C13 as stated: the Dockerfile generated for each active row is FROM
\* <docker_image>, prologue, common tools, OpenSSH fragment, Jupyter fragment,
\* epilogue in this order, with the OpenSSH fragment iff the comma-split
\* services contain ssh and the Jupyter fragment iff they contain jupyter-lab.
C13_AsStated ==
    Returned(1) =>
        /\ Len(WritesBelow("data/dockerfiles/")) = Len(ActiveRows)
        /\ \A k \in 1..Len(ActiveRows) :
              WritesBelow("data/dockerfiles/")[k][2] =
                 DockerfileParts(F(rows[ActiveRows[k]], "Docker Image"),
                                 "ssh" \in Range(Entries(rows[ActiveRows[k]])),
                                 "jupyter-lab" \in Range(Entries(rows[ActiveRows[k]])))

\* C13: the Dockerfile generated for each active row is FROM <docker_image>,
\* prologue, common tools, OpenSSH fragment, Jupyter fragment, epilogue in this
\* order, with the OpenSSH fragment iff one of the comma-split services,
\* trimmed and in lower case, is ssh, and the Jupyter fragment iff one of them,
\* trimmed and in lower case, is jupyter-lab.
C13_DockerfileContent ==
    Returned(1) =>
        /\ Len(WritesBelow("data/dockerfiles/")) = Len(ActiveRows)
        /\ \A k \in 1..Len(ActiveRows) :
              WritesBelow("data/dockerfiles/")[k][2] =
                 DockerfileParts(F(rows[ActiveRows[k]], "Docker Image"),
                                 "ssh" \in Range(NormalEntries(rows[ActiveRows[k]])),
                                 "jupyter-lab" \in Range(NormalEntries(rows[ActiveRows[k]])))

\* Dockerfiles are written for a row with services ssh, without the Jupyter
\* fragment, and for a row whose services are written SSH, with the OpenSSH
\* fragment
C13_Witness ==
    /\ Returned(1)
    /\ \E k, j \in 1..Len(ActiveRows) :
          /\ F(rows[ActiveRows[k]], "Services") = "ssh"
          /\ Len(WritesBelow("data/dockerfiles/")[k][2]) = 5
          /\ F(rows[ActiveRows[j]], "Services") = "SSH"
          /\ Len(WritesBelow("data/dockerfiles/")[j][2]) = 5

\* the trimmed cell of an optional column, empty when the table lacks the column
Optional(row, col) == IF col \in DOMAIN row THEN strip(row[col]) ELSE ""

\* the flags of a launch script that start with a word
FlagsOf(content, word) ==
    SelectSeq(content.optional_flags, LAMBDA f : startswith(f, word \o " "))

\* the flag is there with the value iff the value is not empty
FlagIff(content, word, value) ==
    FlagsOf(content, word) = IF value # "" THEN <<word \o " " \o value>> ELSE <<>>

\* C14: the launch script generated for each active row maps <port>:22, uses
\* the row's ulimit_stack when it is not empty and 67108864 otherwise, and has
\* the CPU-pinning, memory-node-pinning, memory-limit and GPU-device flags
\* exactly when cpu_ids, mem_ids, memory and gpu_ids are not empty, an absent
\* optional column counting as empty.
C14_LaunchScript ==
    Returned(2) =>
        /\ Len(WritesBelow("data/scripts/docker_run_")) = Len(ActiveRows)
        /\ \A k \in 1..Len(ActiveRows) :
              LET row == rows[ActiveRows[k]]
                  content == WritesBelow("data/scripts/docker_run_")[k][2]
              IN  /\ content.publish = F(row, "Port") \o ":22"
                  /\ content.stack_value =
                        IF Optional(row, "Ulimit Stack") # ""
                        THEN Optional(row, "Ulimit Stack") ELSE "67108864"
                  /\ FlagIff(content, "--cpuset-cpus", Optional(row, "CPU IDs"))
                  /\ FlagIff(content, "--cpuset-mems", Optional(row, "Mem IDs"))
                  /\ FlagIff(content, "-m", Optional(row, "Memory"))
                  /\ FlagIff(content, "--memory-swap", Optional(row, "Memory"))
                  /\ FlagsOf(content, "--gpus") =
                        IF F(row, "GPU IDs") # ""
                        THEN <<"--gpus '\"device=" \o F(row, "GPU IDs") \o "\"'">>
                        ELSE <<>>
                  /\ Len(content.optional_flags) =
                        Len(FlagsOf(content, "--cpuset-cpus"))
                          + Len(FlagsOf(content, "--cpuset-mems"))
                          + Len(FlagsOf(content, "-m"))
                          + Len(FlagsOf(content, "--memory-swap"))
                          + Len(FlagsOf(content, "--gpus"))

\* a launch script is written for a row with its own stack limit, CPU and
\* memory-node pinning and a blank memory limit
C14_Witness ==
    /\ Returned(2)
    /\ \E k \in 1..Len(ActiveRows) :
          LET row == rows[ActiveRows[k]]
              content == WritesBelow("data/scripts/docker_run_")[k][2]
          IN  /\ Optional(row, "Ulimit Stack") = "8192"
              /\ Optional(row, "CPU IDs") = "0-7"
              /\ content.stack_value = "8192"
              /\ Len(content.optional_flags) = 3

\* the distinct ip values of the active rows
ActiveIps == {F(rows[i], "IP") : i \in Range(ActiveRows)}

\* the active rows on a node, in table order
RowsOn(ip) == Ascending({i \in Range(ActiveRows) : F(rows[i], "IP") = ip})

Fates == {"ok", "fail", "missing"}

\* C15: one node-init script is written per distinct ip of the active rows;
\* the script of a node invokes, in table order, the launch script of every
\* active row on that node and of no other row; a launch script that fails or
\* is missing is reported and the next one is still run.
C15_NodeInit ==
    Returned(3) =>
        LET ws == WritesBelow("data/scripts/init_node_")
        IN  /\ Len(ws) = Cardinality(ActiveIps)
            /\ counts[3] = Cardinality(ActiveIps)
            /\ {ws[k][1] : k \in 1..Len(ws)} =
                  {"data/scripts/init_node_" \o ip \o ".sh" : ip \in ActiveIps}
            /\ \A k \in 1..Len(ws) :
                  LET ip == ws[k][2].node_name
                      refs == ws[k][2].docker_run_scripts
                  IN  /\ ws[k][1] = "data/scripts/init_node_" \o ip \o ".sh"
                      /\ Len(refs) = Len(RowsOn(ip))
                      /\ \A j \in 1..Len(refs) :
                            refs[j] = <<Effective(rows[RowsOn(ip)[j]]),
                                        "docker_run_" \o Effective(rows[RowsOn(ip)[j]])
                                          \o ".sh">>
                      /\ \A fate \in [1..Len(refs) -> Fates] :
                            LET out == init_node_run(ws[k][2], fate)
                            IN  /\ Len(out) = Len(refs)
                                /\ \A j \in 1..Len(refs) :
                                      /\ out[j][2] \in {refs[j][1], refs[j][2]}
                                      /\ (out[j][1] = "Successfully started")
                                            <=> (fate[j] = "ok")

\* scripts are written for two nodes, one of them with two containers
C15_Witness ==
    /\ Returned(3)
    /\ Cardinality(ActiveIps) = 2
    /\ \E ip \in ActiveIps : Len(RowsOn(ip)) = 2

-----------------------------------------------------------------------------
(* Properties of the inventory patcher, as relations between the file before
   and after the call *)

\* update_inventory_containers is called and returns
PatcherReturns == pc = "update_inventory_containers" /\ pc' = "create_team_messages"

SectionHeaders(lines) == {k \in 1..Len(lines) : strip(lines[k]) = "[containers]"}

HasContainersSection == inventory.exists /\ SectionHeaders(inventory.lines) # {}

\* the line of the [containers] header
HeaderLine == CHOOSE k \in SectionHeaders(inventory.lines) :
                 \A j \in SectionHeaders(inventory.lines) : k <= j

\* the lines after the header that open a section
LaterHeaders ==
    {k \in (HeaderLine + 1)..Len(inventory.lines) :
        /\ startswith(strip(inventory.lines[k]), "[")
        /\ endswith(strip(inventory.lines[k]), "]")}

\* the lines of the sections after [containers]
SectionsAfter ==
    IF LaterHeaders = {} THEN <<>>
    ELSE SubSeq(inventory.lines,
                CHOOSE k \in LaterHeaders : \A j \in LaterHeaders : k <= j,
                Len(inventory.lines))

\* the generated line of an active row
GeneratedLine(row) ==
    Effective(row) \o " ansible_host=" \o parse_ssh_config(F(row, "IP"))
      \o " ansible_user=root ansible_password=" \o F(row, "SSH Password")
      \o " ansible_port=" \o F(row, "Port")
      \o " ansible_ssh_common_args='-o StrictHostKeyChecking=no -o UserKnownHostsFile=/dev/null'\n"

\* C16: when the inventory file has the [containers] section, the patcher
\* replaces the body of that section by one generated line per active row, in
\* table order, leaves every line up to the header and every line of the
\* sections after it as it was, and returns the number of generated lines.
C16_PatchesContainersSection ==
    [][(PatcherReturns /\ HasContainersSection) =>
          /\ inventory'.exists
          /\ inventory'.lines =
                SubSeq(inventory.lines, 1, HeaderLine)
                  \o [k \in 1..Len(ActiveRows) |-> GeneratedLine(rows[ActiveRows[k]])]
                  \o SectionsAfter
          /\ counts' = Append(counts, Len(ActiveRows))]_vars

\* C17: when the inventory file does not exist or has no [containers] section,
\* the patcher returns 0 and writes nothing: an existing file stays as it is, a
\* missing file is not created, and the run goes on to the credential messages.
C17_MissingSectionOrFile ==
    [][(pc = "update_inventory_containers" /\ pc' # pc /\ ~HasContainersSection) =>
          /\ inventory' = inventory
          /\ writes' = writes
          /\ counts' = Append(counts, 0)
          /\ pc' = "create_team_messages"]_vars

\* the patcher has returned 0 for a table with active rows, the file being
\* absent, and the messages are written
C17_Witness ==
    /\ pc = "done"
    /\ Returned(5)
    /\ counts[4] = 0
    /\ ~inventory.exists
    /\ Len(ActiveRows) > 0
    /\ counts[5] > 0

-----------------------------------------------------------------------------
(* Properties of the credential messages *)

\* the team ids of the active rows
ActiveTeamIds == {F(rows[i], "Team ID") : i \in Range(ActiveRows)}

\* the active rows of a team, in table order
RowsOfTeam(id) == Ascending({i \in Range(ActiveRows) : F(rows[i], "Team ID") = id})

\* C18: the active rows are grouped by team id and one message is written per
\* team, with one credentials block for each active row of the team, in table
\* order; a block has a header that names its container iff the team has more
\* than one active row.
C18_TeamMessages ==
    Returned(5) =>
        LET ws == WritesBelow("data/messages/")
        IN  /\ Len(ws) = Cardinality(ActiveTeamIds)
            /\ counts[5] = Cardinality(ActiveTeamIds)
            /\ {ws[k][2].team_id : k \in 1..Len(ws)} = ActiveTeamIds
            /\ \A k \in 1..Len(ws) :
                  LET team == RowsOfTeam(ws[k][2].team_id)
                      blocks == ws[k][2].blocks
                  IN  /\ ws[k][1] = MessagePath(rows[team[1]])
                      /\ Len(blocks) = Len(team)
                      /\ \A j \in 1..Len(team) :
                            /\ blocks[j].port = F(rows[team[j]], "Port")
                            /\ blocks[j].ssh_password = F(rows[team[j]], "SSH Password")
                            /\ blocks[j].ip = parse_ssh_config(F(rows[team[j]], "IP"))
                            /\ blocks[j].header =
                                  IF Len(team) > 1
                                  THEN "## Container " \o str(j) \o ": "
                                         \o Effective(rows[team[j]])
                                  ELSE ""

\* messages are written for a team with two containers and a team with one
C18_Witness ==
    /\ Returned(5)
    /\ \E a, b \in ActiveTeamIds : Len(RowsOfTeam(a)) = 2 /\ Len(RowsOfTeam(b)) = 1

-----------------------------------------------------------------------------
(* Properties a validated table is expected to give the run *)

\* the distinct paths this run wrote below a directory
PathsBelow(dir) == {writes[k][1] : k \in {j \in 1..Len(writes) : startswith(writes[j][1], dir)}}

\* C19: in a table that passed the five rules distinct active rows have
\* distinct effective container names, so no Dockerfile or launch script of a
\* row is overwritten by another row, distinct teams get distinct message
\* files, and each generator returns the number of distinct files it wrote.
C19_DistinctNames ==
    Validated =>
        /\ Returned(1) =>
              /\ \A i, j \in Range(ActiveRows) :
                    i # j => Effective(rows[i]) # Effective(rows[j])
              /\ counts[1] = Cardinality(PathsBelow("data/dockerfiles/"))
        /\ Returned(2) => counts[2] = Cardinality(PathsBelow("data/scripts/docker_run_"))
        /\ Returned(3) => counts[3] = Cardinality(PathsBelow("data/scripts/init_node_"))
        /\ Returned(5) =>
              /\ counts[5] = Cardinality(PathsBelow("data/messages/"))
              /\ \A i, j \in Range(ActiveRows) :
                    F(rows[i], "Team ID") # F(rows[j], "Team ID")
                       => MessagePath(rows[i]) # MessagePath(rows[j])

\* the fill step has run
Filled == Validated /\ pc \notin {"fill_ssh_passwords"}

\* C20: after the fill step on a validated table every active row has a
\* password, all active rows of a team have the same one, and so every
\* generated inventory line and every credentials block holds a password.
C20_EveryActiveRowHasPassword ==
    Filled =>
        /\ \A i \in Range(ActiveRows) : F(rows[i], "SSH Password") # ""
        /\ \A i, j \in Range(ActiveRows) :
              F(rows[i], "Team ID") = F(rows[j], "Team ID")
                 => F(rows[i], "SSH Password") = F(rows[j], "SSH Password")
        /\ Returned(5) =>
              \A k \in 1..Len(WritesBelow("data/messages/")) :
                  \A b \in Range(WritesBelow("data/messages/")[k][2].blocks) :
                      b.ssh_password # ""

\* C21: for a table that passed the five rules the run never aborts partway
\* through generation: the four generators and the inventory patcher all run
\* to completion, so the run ends with every generator returned and neither
\* raises on a team id nor exits after Dockerfiles were written.
C21_GenerationCompletes ==
    Validated =>
        /\ pc \notin {"exit", "raise"}
        /\ pc = "done" => Returned(5)

\* the cluster rule and the services rule passed
ClusterAndServicesPassed ==
    /\ Ran(5)
    /\ log[4].status = "pass"
    /\ log[5].status = "pass"

\* C22 as stated: in a table that passed the cluster rule and the services
\* rule the comma-split services of every active row contain the entry ssh,
\* and every generated Dockerfile includes the OpenSSH server fragment.
C22_AsStated ==
    ClusterAndServicesPassed =>
        /\ \A i \in Range(ActiveRows) : "ssh" \in Range(Entries(rows[i]))
        /\ \A k \in 1..Len(WritesBelow("data/dockerfiles/")) :
              "# =====OpenSSH Server=====" \in Range(WritesBelow("data/dockerfiles/")[k][2])

\* C22: in a table that passed the cluster rule and the services rule the
\* comma-split services of every active row contain an entry that, trimmed and
\* in lower case, is ssh, and every generated Dockerfile includes the OpenSSH
\* server fragment.
C22_SshAlwaysPresent ==
    ClusterAndServicesPassed =>
        /\ \A i \in Range(ActiveRows) : "ssh" \in Range(NormalEntries(rows[i]))
        /\ \A k \in 1..Len(WritesBelow("data/dockerfiles/")) :
              "# =====OpenSSH Server=====" \in Range(WritesBelow("data/dockerfiles/")[k][2])

\* Dockerfiles with the OpenSSH server fragment are written for a row whose
\* services are written SSH and for a row with services ssh, jupyter-lab
C22_Witness ==
    /\ ClusterAndServicesPassed
    /\ Returned(1)
    /\ Len(WritesBelow("data/dockerfiles/")) = 2
    /\ \E i, j \in Range(ActiveRows) :
          /\ F(rows[i], "Services") = "SSH"
          /\ F(rows[j], "Services") = "ssh, jupyter-lab"
    /\ \A k \in 1..2 :
          "# =====OpenSSH Server=====" \in Range(WritesBelow("data/dockerfiles/")[k][2])

=============================================================================
